---- MODULE Spec2Model ----
(***************************************************************************)
(* The Maybe and Writer monads of pymonad (src/pymonad/maybe.py,           *)
(* src/pymonad/writer.py) as a state machine: a client builds a monad      *)
(* value with a constructor and then calls map / bind / amap / == on it.   *)
(* Every method is a pure operator translated from its Python body; the    *)
(* actions are the client's calls, and the state records the objects the   *)
(* calls returned, what each call did with the user function it was given, *)
(* and whether an exception reached the caller.                            *)
(***************************************************************************)
EXTENDS Integers, Sequences, FiniteSets

VARIABLES
    monad,  \* "none", "Maybe" or "Writer": the class the client is using
    hist,   \* the objects of the chain: hist[1] is constructed, hist[k+1] is returned by step k
    steps,  \* steps[k]: the call that produced hist[k] and what its user function did
    op,     \* the last call the client made
    exc,    \* TRUE iff the last call let an exception reach the caller
    arg,    \* the second operand of the last amap / == call
    lhs,    \* outcome of the left-hand expression of the last law evaluation
    rhs,    \* outcome of the right-hand expression of the last law evaluation
    eqv     \* the value of lhs == rhs (or of the last == call)

vars == <<monad, hist, steps, op, exc, arg, lhs, rhs, eqv>>

-----------------------------------------------------------------------------
(* Bounds *)

\* plain payloads are the Python ints 0..MaxVal
MaxVal == 1
\* a Maybe chain has at most MaxChain method calls after the constructor
MaxChain == 3
\* a Writer chain has at most MaxBinds bind calls after the constructor
MaxBinds == 2

-----------------------------------------------------------------------------
(* Python values, calls and `+` *)

PyNone == [t |-> "None", v |-> 0]
PyInt(n) == [t |-> "int", v |-> n]
PyStr(s) == [t |-> "str", v |-> s]
PyList(s) == [t |-> "list", v |-> s]
PyFn(f) == [t |-> "fn", v |-> f]

PyInts == {PyInt(n) : n \in 0..MaxVal}

\* the outcome of evaluating a Python expression: a value, or an exception
Ret(x) == [st |-> "ret", val |-> x]
Raise == [st |-> "raise", val |-> PyNone]
\* the user function was not invoked / no expression was evaluated
NotCalled == [st |-> "nocall", val |-> PyNone]

\* a == b on payloads and logs: values of different types are unequal
PyEq(a, b) == a = b

\* function(x): calling a non-callable, or a function outside the inputs it
\* handles, raises
Call(function, x) ==
    IF function.t = "fn" /\ x \in DOMAIN function.v THEN function.v[x] ELSE Raise

\* a + b on logs: str + str and list + list concatenate, a mixed pair is a TypeError
PyAdd(a, b) ==
    IF a.t = b.t /\ a.t \in {"str", "list"}
    THEN Ret([t |-> a.t, v |-> a.v \o b.v])
    ELSE Raise

\* a user function that has outcome o on input x and raises on every other input
UserFn(x, o) == PyFn([v \in PyInts |-> IF v = x THEN o ELSE Raise])

\* lambda x: g(f(x))
Compose(f, g) ==
    PyFn([v \in PyInts |->
            LET r == Call(f, v) IN IF r.st = "raise" THEN Raise ELSE Call(g, r.val)])

-----------------------------------------------------------------------------
(* maybe.py *)

\* Monad.__init__(value, monoid) for the class Maybe. id is the identity of the
\* allocated object (Python's `is`); it takes no part in ==.
Maybe(value, monoid, id) == [id |-> id, value |-> value, monoid |-> monoid]

\* def Just(value): return Maybe(value, True)
Just(value, id) == Maybe(value, TRUE, id)

\* Nothing = Maybe(None, False): the one object the module allocates at import
Nothing == Maybe(PyNone, FALSE, 0)

\* Maybe.insert
Maybe_insert(value, id) == Just(value, id)

is_just(self) == self.monoid

is_nothing(self) == ~self.monoid

\* Maybe.map: [out |-> what the caller gets, fn |-> what the user function did]
Maybe_map_keeps_self(self, function, id) ==
    IF is_nothing(self)
    THEN [out |-> Ret(self), fn |-> NotCalled]
    ELSE LET r == Call(function, self.value) IN
         IF r.st = "raise"
         THEN [out |-> Ret(self), fn |-> r]
         ELSE [out |-> Ret(Just(r.val, id)), fn |-> r]

Maybe_map_no_except(self, function, id) ==
    IF is_nothing(self)
    THEN [out |-> Ret(self), fn |-> NotCalled]
    ELSE LET r == Call(function, self.value) IN
         IF r.st = "raise"
         THEN [out |-> Raise, fn |-> r]
         ELSE [out |-> Ret(Just(r.val, id)), fn |-> r]

Maybe_map(self, function, id) ==
    IF is_nothing(self)
    THEN [out |-> Ret(self), fn |-> NotCalled]
    ELSE LET r == Call(function, self.value) IN
         IF r.st = "raise"
         THEN [out |-> Ret(Nothing), fn |-> r]
         ELSE [out |-> Ret(Just(r.val, id)), fn |-> r]

\* Maybe.bind: the Kleisli function's result is returned as it is
Maybe_bind_copies_absent(self, kleisli_function) ==
    IF self.monoid = FALSE
    THEN [out |-> Ret(Maybe(self.value, FALSE, self.id + 1)), fn |-> NotCalled]
    ELSE LET r == Call(kleisli_function, self.value) IN
         IF r.st = "raise"
         THEN [out |-> Ret(Nothing), fn |-> r]
         ELSE [out |-> Ret(r.val), fn |-> r]

Maybe_bind_keeps_self(self, kleisli_function) ==
    IF self.monoid = FALSE
    THEN [out |-> Ret(self), fn |-> NotCalled]
    ELSE LET r == Call(kleisli_function, self.value) IN
         IF r.st = "raise"
         THEN [out |-> Ret(self), fn |-> r]
         ELSE [out |-> Ret(r.val), fn |-> r]

Maybe_bind(self, kleisli_function) ==
    IF self.monoid = FALSE
    THEN [out |-> Ret(self), fn |-> NotCalled]
    ELSE LET r == Call(kleisli_function, self.value) IN
         IF r.st = "raise"
         THEN [out |-> Ret(Nothing), fn |-> r]
         ELSE [out |-> Ret(r.val), fn |-> r]

\* Maybe.amap
Maybe_amap_swapped(self, monad_value, id) ==
    IF is_nothing(self) \/ is_nothing(monad_value)
    THEN [out |-> Ret(Nothing), fn |-> NotCalled]
    ELSE Maybe_map(self, monad_value.value, id)

Maybe_amap(self, monad_value, id) ==
    IF is_nothing(self) \/ is_nothing(monad_value)
    THEN [out |-> Ret(Nothing), fn |-> NotCalled]
    ELSE Maybe_map(monad_value, self.value, id)

\* Maybe.__eq__
Maybe_eq(self, other) == PyEq(self.value, other.value) /\ self.monoid = other.monoid

\* lambda x: f(x).bind(g)
MaybeKleisliCompose(f, g) ==
    PyFn([v \in PyInts |->
            LET r == Call(f, v) IN
            IF r.st = "raise" THEN Raise ELSE Maybe_bind(r.val, g).out])

\* the outcomes a plain function passed to map can have
MapOutcomes == {Ret(v) : v \in PyInts} \cup {Raise}

\* the outcomes a Kleisli function passed to Maybe.bind can have: a new Just, the
\* shared Nothing, a new absent object holding a placeholder, or an exception
MaybeKleisliOutcomes(id) ==
    {Ret(Just(v, id)) : v \in PyInts} \cup {Ret(Nothing), Raise}
        \cup {Ret(Maybe(v, FALSE, id)) : v \in PyInts}

\* the Maybe objects a client can hold: Just(v), Nothing, Maybe(v, False)
MaybeObjects(id) ==
    {Just(v, id) : v \in PyInts} \cup {Nothing}
        \cup {Maybe(v, FALSE, id) : v \in PyInts \cup {PyNone}}

-----------------------------------------------------------------------------
(* writer.py *)

\* Monad.__init__(value, monoid) for the class Writer: monoid is the log
Writer(value, monoid) == [value |-> value, monoid |-> monoid]

\* Writer.insert: return Writer(value, '')
Writer_insert(value) == Writer(value, PyStr(<<>>))

\* Writer.bind: exceptions of the Kleisli function and of `+` reach the caller
Writer_bind_reversed(self, kleisli_function) ==
    LET r == Call(kleisli_function, self.value) IN
    IF r.st = "raise"
    THEN [out |-> Raise, fn |-> r]
    ELSE LET log == PyAdd(r.val.monoid, self.monoid) IN
         IF log.st = "raise"
         THEN [out |-> Raise, fn |-> r]
         ELSE [out |-> Ret(Writer(r.val.value, log.val)), fn |-> r]

Writer_bind(self, kleisli_function) ==
    LET r == Call(kleisli_function, self.value) IN
    IF r.st = "raise"
    THEN [out |-> Raise, fn |-> r]
    ELSE LET log == PyAdd(self.monoid, r.val.monoid) IN
         IF log.st = "raise"
         THEN [out |-> Raise, fn |-> r]
         ELSE [out |-> Ret(Writer(r.val.value, log.val)), fn |-> r]

\* Writer.map: no try/except, the function's exception reaches the caller
Writer_map(self, function) ==
    LET r == Call(function, self.value) IN
    IF r.st = "raise"
    THEN [out |-> Raise, fn |-> r]
    ELSE [out |-> Ret(Writer(r.val, self.monoid)), fn |-> r]

\* Writer.__eq__
Writer_eq(self, other) == PyEq(self.value, other.value) /\ PyEq(self.monoid, other.monoid)

\* lambda x: f(x).bind(g)
WriterKleisliCompose(f, g) ==
    PyFn([v \in PyInts |->
            LET r == Call(f, v) IN
            IF r.st = "raise" THEN Raise ELSE Writer_bind(r.val, g).out])

\* the logs the client's functions write: strings and lists, two monoids under +
Logs ==
    {PyStr(<<>>), PyStr(<<"a">>), PyStr(<<"b">>), PyList(<<>>), PyList(<<"a">>)}

\* the outcomes a Kleisli function passed to Writer.bind can have
WriterKleisliOutcomes == {Ret(Writer(v, l)) : v \in PyInts, l \in Logs} \cup {Raise}

-----------------------------------------------------------------------------
(* The client: constructors *)

Last(q) == q[Len(q)]

Step(name, fn) == [op |-> name, fn |-> fn]

CtorOps == {"Just", "insert", "Nothing", "Maybe", "Writer"}

\* the calls a chain is made of
ChainOps == CtorOps \cup {"map", "bind"}

NoLaw == /\ lhs' = NotCalled
         /\ rhs' = NotCalled
         /\ eqv' = FALSE

Init ==
    /\ monad = "none"
    /\ hist = <<>>
    /\ steps = <<>>
    /\ op = "init"
    /\ exc = FALSE
    /\ arg = PyNone
    /\ lhs = NotCalled
    /\ rhs = NotCalled
    /\ eqv = FALSE

Constructed(cls, name, obj, value) ==
    /\ monad' = cls
    /\ hist' = <<obj>>
    /\ steps' = <<Step(name, NotCalled)>>
    /\ op' = name
    /\ arg' = value
    /\ exc' = FALSE
    /\ NoLaw

\* x = Just(v)
CallJust ==
    /\ monad = "none"
    /\ \E v \in PyInts : Constructed("Maybe", "Just", Just(v, 1), v)

\* x = Maybe.insert(v)
CallMaybeInsert ==
    /\ monad = "none"
    /\ \E v \in PyInts : Constructed("Maybe", "insert", Maybe_insert(v, 1), v)

\* x = Nothing
UseNothing ==
    /\ monad = "none"
    /\ Constructed("Maybe", "Nothing", Nothing, PyNone)

\* x = Maybe(v, False): the class's constructor, as maybe.py itself calls it
ConstructAbsent ==
    /\ monad = "none"
    /\ \E v \in PyInts \cup {PyNone} : Constructed("Maybe", "Maybe", Maybe(v, FALSE, 1), v)

\* w = Writer.insert(v)
CallWriterInsert ==
    /\ monad = "none"
    /\ \E v \in PyInts : Constructed("Writer", "insert", Writer_insert(v), v)

\* w = Writer(v, log)
ConstructWriter ==
    /\ monad = "none"
    /\ \E v \in PyInts, l \in Logs : Constructed("Writer", "Writer", Writer(v, l), v)

-----------------------------------------------------------------------------
(* The client: chains of map / bind *)

CanStep(max) ==
    /\ op \in ChainOps
    /\ ~exc
    /\ Len(hist) <= max

\* the chain after a call that had result r: the returned object is the new
\* receiver; an exception ends the chain
Chained(name, r) ==
    /\ steps' = Append(steps, Step(name, r.fn))
    /\ op' = name
    /\ exc' = (r.out.st = "raise")
    /\ hist' = IF r.out.st = "ret" THEN Append(hist, r.out.val) ELSE hist
    /\ UNCHANGED <<monad, arg>>
    /\ NoLaw

\* x = x.map(f)
MaybeMapStep ==
    /\ monad = "Maybe"
    /\ CanStep(MaxChain)
    /\ \E x \in PyInts, o \in MapOutcomes :
          Chained("map", Maybe_map(Last(hist), UserFn(x, o), Len(hist) + 1))

\* x = x.bind(f)
MaybeBindStep ==
    /\ monad = "Maybe"
    /\ CanStep(MaxChain)
    /\ \E x \in PyInts, o \in MaybeKleisliOutcomes(Len(hist) + 1) :
          Chained("bind", Maybe_bind(Last(hist), UserFn(x, o)))

\* w = w.bind(f)
WriterBindStep ==
    /\ monad = "Writer"
    /\ CanStep(MaxBinds)
    /\ \E x \in PyInts, o \in WriterKleisliOutcomes :
          Chained("bind", Writer_bind(Last(hist), UserFn(x, o)))

-----------------------------------------------------------------------------
(* The client: amap and == on a freshly constructed Maybe *)

Fresh == Len(hist) = 1 /\ op \in CtorOps

\* the receivers of amap: a Just holding a function, a Just holding a
\* non-callable, and the absent objects
AmapReceivers ==
    {Just(UserFn(x, o), 2) : x \in PyInts, o \in MapOutcomes}
        \cup {Just(PyInt(0), 2), Nothing, Maybe(PyInt(0), FALSE, 2)}

\* y = mf.amap(x)
MaybeAmap ==
    /\ monad = "Maybe"
    /\ Fresh
    /\ \E mf \in AmapReceivers :
          LET r == Maybe_amap(mf, hist[1], 3) IN
          /\ arg' = mf
          /\ steps' = Append(steps, Step("amap", r.fn))
          /\ op' = "amap"
          /\ exc' = (r.out.st = "raise")
          /\ hist' = IF r.out.st = "ret" THEN Append(hist, r.out.val) ELSE hist
          /\ UNCHANGED monad
          /\ NoLaw

\* x == other
MaybeEq ==
    /\ monad = "Maybe"
    /\ Fresh
    /\ \E other \in MaybeObjects(2) :
          /\ arg' = other
          /\ eqv' = Maybe_eq(hist[1], other)
          /\ op' = "eq"
          /\ lhs' = NotCalled
          /\ rhs' = NotCalled
          /\ UNCHANGED <<monad, hist, steps, exc>>

-----------------------------------------------------------------------------
(* The client: both sides of a monad law evaluated on a freshly constructed m *)

\* a == b of two expressions: it has a value only if both of them returned
MaybeEqOut(l, r) == l.st = "ret" /\ r.st = "ret" /\ Maybe_eq(l.val, r.val)

WriterEqOut(l, r) == l.st = "ret" /\ r.st = "ret" /\ Writer_eq(l.val, r.val)

Law(name, l, r, same) ==
    /\ Fresh
    /\ op' = name
    /\ lhs' = l
    /\ rhs' = r
    /\ eqv' = same
    /\ UNCHANGED <<monad, hist, steps, exc, arg>>

\* Maybe.insert(x).bind(f) == f(x)
MaybeLeftIdentity ==
    /\ monad = "Maybe"
    /\ op = "insert"
    /\ \E x \in PyInts, o \in MaybeKleisliOutcomes(2) :
          LET f == UserFn(x, o)
              l == Maybe_bind(hist[1], f).out
              r == Call(f, hist[1].value)
          IN  Law("left_identity", l, r, MaybeEqOut(l, r))

\* m.bind(Maybe.insert) == m
MaybeRightIdentity ==
    /\ monad = "Maybe"
    /\ LET insert == PyFn([v \in PyInts |-> Ret(Maybe_insert(v, 2))])
           l == Maybe_bind(hist[1], insert).out
           r == Ret(hist[1])
       IN  Law("right_identity", l, r, MaybeEqOut(l, r))

\* m.map(f).map(g) == m.map(lambda x: g(f(x)))
MaybeFunctorComposition ==
    /\ monad = "Maybe"
    /\ \E x, y \in PyInts, fo, go \in MapOutcomes :
          LET f == UserFn(x, fo)
              g == UserFn(y, go)
              first == Maybe_map(hist[1], f, 2).out
              l == IF first.st = "raise" THEN Raise
                   ELSE Maybe_map(first.val, g, 3).out
              r == Maybe_map(hist[1], Compose(f, g), 4).out
          IN  Law("functor_composition", l, r, MaybeEqOut(l, r))

\* m.bind(f).bind(g) == m.bind(lambda x: f(x).bind(g))
MaybeAssociativity ==
    /\ monad = "Maybe"
    /\ \E x, y \in PyInts, fo \in MaybeKleisliOutcomes(2), go \in MaybeKleisliOutcomes(3) :
          LET f == UserFn(x, fo)
              g == UserFn(y, go)
              first == Maybe_bind(hist[1], f).out
              l == IF first.st = "raise" THEN Raise
                   ELSE Maybe_bind(first.val, g).out
              r == Maybe_bind(hist[1], MaybeKleisliCompose(f, g)).out
          IN  Law("associativity", l, r, MaybeEqOut(l, r))

\* Writer.insert(x).bind(f) == f(x)
WriterLeftIdentity ==
    /\ monad = "Writer"
    /\ op = "insert"
    /\ \E x \in PyInts, o \in WriterKleisliOutcomes :
          LET f == UserFn(x, o)
              l == Writer_bind(hist[1], f).out
              r == Call(f, hist[1].value)
          IN  Law("left_identity", l, r, WriterEqOut(l, r))

\* m.bind(Writer.insert) == m
WriterRightIdentity ==
    /\ monad = "Writer"
    /\ LET insert == PyFn([v \in PyInts |-> Ret(Writer_insert(v))])
           l == Writer_bind(hist[1], insert).out
           r == Ret(hist[1])
       IN  Law("right_identity", l, r, WriterEqOut(l, r))

\* m.map(f).map(g) == m.map(lambda x: g(f(x)))
WriterFunctorComposition ==
    /\ monad = "Writer"
    /\ \E x, y \in PyInts, fo, go \in MapOutcomes :
          LET f == UserFn(x, fo)
              g == UserFn(y, go)
              first == Writer_map(hist[1], f).out
              l == IF first.st = "raise" THEN Raise
                   ELSE Writer_map(first.val, g).out
              r == Writer_map(hist[1], Compose(f, g)).out
          IN  Law("functor_composition", l, r, WriterEqOut(l, r))

\* m.bind(f).bind(g) == m.bind(lambda x: f(x).bind(g))
WriterAssociativity ==
    /\ monad = "Writer"
    /\ \E x, y \in PyInts, fo, go \in WriterKleisliOutcomes :
          LET f == UserFn(x, fo)
              g == UserFn(y, go)
              first == Writer_bind(hist[1], f).out
              l == IF first.st = "raise" THEN Raise
                   ELSE Writer_bind(first.val, g).out
              r == Writer_bind(hist[1], WriterKleisliCompose(f, g)).out
          IN  Law("associativity", l, r, WriterEqOut(l, r))

-----------------------------------------------------------------------------

Next ==
    \/ CallJust
    \/ CallMaybeInsert
    \/ UseNothing
    \/ ConstructAbsent
    \/ CallWriterInsert
    \/ ConstructWriter
    \/ MaybeMapStep
    \/ MaybeBindStep
    \/ WriterBindStep
    \/ MaybeAmap
    \/ MaybeEq
    \/ MaybeLeftIdentity
    \/ MaybeRightIdentity
    \/ MaybeFunctorComposition
    \/ MaybeAssociativity
    \/ WriterLeftIdentity
    \/ WriterRightIdentity
    \/ WriterFunctorComposition
    \/ WriterAssociativity

Spec == Init /\ [][Next]_vars

-----------------------------------------------------------------------------
(* Properties *)

\* the receiver of the last chain call
Receiver == hist[Len(steps) - 1]

\* C1: when the function given to map or bind of a present Maybe raises, the
\* call returns a value equal to Nothing and no exception reaches the caller
C1_ExceptionContainment ==
    (/\ monad = "Maybe"
     /\ op \in {"map", "bind"}
     /\ Receiver.monoid
     /\ Last(steps).fn.st = "raise")
        => /\ ~exc
           /\ Len(hist) = Len(steps)
           /\ Maybe_eq(Last(hist), Nothing)

C1_Witness ==
    /\ monad = "Maybe"
    /\ op = "map"
    /\ Receiver.monoid
    /\ Last(steps).fn.st = "raise"
    /\ Last(hist) = Nothing

C1_WitnessBind ==
    /\ monad = "Maybe"
    /\ op = "bind"
    /\ Receiver.monoid
    /\ Last(steps).fn.st = "raise"
    /\ Last(hist) = Nothing

\* C2: map and bind of an absent Maybe return the receiver itself (the same
\* object) and do not call the function; so once a chain has yielded an absent
\* object, every later map / bind step yields that object and calls nothing
C2_ShortCircuit ==
    monad = "Maybe" =>
        \A i, j \in 1..Len(hist) :
            (i < j /\ ~hist[i].monoid /\ steps[j].op \in {"map", "bind"})
                => /\ hist[j] = hist[i]
                   /\ steps[j].fn = NotCalled

C2_Witness ==
    /\ monad = "Maybe"
    /\ Len(hist) = 4
    /\ hist[1].monoid
    /\ ~hist[2].monoid
    /\ hist[2] # Nothing
    /\ steps[3].op = "map"
    /\ steps[4].op = "bind"
    /\ hist[4] = hist[2]

C2_WitnessNothing ==
    /\ monad = "Maybe"
    /\ Len(hist) = 3
    /\ hist[1] = Nothing
    /\ steps[2].op = "map"
    /\ steps[3].op = "bind"
    /\ hist[3] = Nothing

\* the logs returned by the Kleisli functions of steps 2..k, in call order
RECURSIVE StepLogs(_)
StepLogs(k) == IF k < 2 THEN <<>> ELSE StepLogs(k - 1) \o steps[k].fn.val.monoid.v

C4_Equality ==
    op = "eq" =>
        (eqv <=> \/ ~hist[1].monoid /\ ~arg.monoid
                 \/ hist[1].monoid /\ arg.monoid /\ PyEq(hist[1].value, arg.value))

\* C5: insert(x).bind(f) == f(x) whenever f(x) returns; for Maybe, when f(x)
\* raises the left side is Nothing
C5_LeftIdentity ==
    op = "left_identity" =>
        /\ rhs.st = "ret" => eqv
        /\ (monad = "Maybe" /\ rhs.st = "raise") => lhs = Ret(Nothing)

\* C6: m.bind(insert) == m for every Maybe and every Writer m
C6_RightIdentity == op = "right_identity" => eqv

\* C7: m.map(f).map(g) == m.map(lambda x: g(f(x))); a Maybe gives equal values
\* on both sides also when f or g raises, a Writer raises on both sides then
C7_FunctorComposition ==
    op = "functor_composition" =>
        \/ eqv
        \/ monad = "Writer" /\ lhs = Raise /\ rhs = Raise

C7_Witness ==
    /\ op = "functor_composition"
    /\ monad = "Maybe"
    /\ hist[1].monoid
    /\ lhs = Ret(Nothing)
    /\ rhs = Ret(Nothing)
    /\ eqv

C7_WitnessWriter ==
    /\ op = "functor_composition"
    /\ monad = "Writer"
    /\ lhs.st = "ret"
    /\ lhs.val.monoid = PyList(<<"a">>)
    /\ lhs.val.value # hist[1].value
    /\ eqv

\* C8: Writer.insert(x) holds x and a log that is the identity of the log type
\* in use: added on either side to any log l, a string or a list, it gives l
C8_InsertIdentity ==
    (monad = "Writer" /\ op = "insert") =>
        /\ hist[1].value = arg
        /\ \A l \in Logs :
              /\ PyAdd(hist[1].monoid, l) = Ret(l)
              /\ PyAdd(l, hist[1].monoid) = Ret(l)

\* C9: mf.amap(mv) is absent, without a call of mf's function, if mf or mv is
\* absent; otherwise it is Just(mf.value(mv.value)), or Nothing if that call raises
C9_Amap ==
    op = "amap" =>
        /\ ~exc
        /\ Len(hist) = 2
        /\ IF ~arg.monoid \/ ~hist[1].monoid
           THEN ~hist[2].monoid /\ steps[2].fn = NotCalled
           ELSE LET r == Call(arg.value, hist[1].value) IN
                IF r.st = "raise"
                THEN hist[2] = Nothing
                ELSE hist[2].monoid /\ PyEq(hist[2].value, r.val)

C9_Witness ==
    /\ op = "amap"
    /\ arg.monoid
    /\ hist[1].monoid
    /\ hist[2].monoid
    /\ hist[2].value # hist[1].value

C9_WitnessAbsent ==
    /\ op = "amap"
    /\ arg.monoid
    /\ ~hist[1].monoid
    /\ hist[2] = Nothing

\* C10: m.bind(f).bind(g) == m.bind(lambda x: f(x).bind(g)); a Maybe gives equal
\* values on both sides also when m is absent or f or g raises; a Writer gives
\* equal values, or raises on both sides
C10_Associativity ==
    op = "associativity" =>
        \/ eqv
        \/ monad = "Writer" /\ lhs = Raise /\ rhs = Raise

C10_Witness ==
    /\ op = "associativity"
    /\ monad = "Writer"
    /\ eqv
    /\ hist[1].monoid = PyStr(<<"b">>)
    /\ lhs.val.monoid = PyStr(<<"b", "a", "b">>)

C10_WitnessMaybe ==
    /\ op = "associativity"
    /\ monad = "Maybe"
    /\ hist[1].monoid
    /\ eqv
    /\ lhs.val.monoid
    /\ lhs.val.id = 3

====
